---- MODULE Spec2Model ----
(***************************************************************************)
(* Room state manager and broadcast engine of the chat server              *)
(* (src/src/websocket.rs, state.rs, database.rs, models.rs).               *)
(*                                                                         *)
(* One process per connection (handle_socket).  All room state lives in    *)
(* ChatState.rooms, a HashMap behind one tokio Mutex; a handler holds the  *)
(* guard from its lock().await to the end of its scope, store calls        *)
(* included.  A handler is cut into steps at its store calls and at the    *)
(* two places where the map is observably inconsistent under the lock      *)
(* (or_default before insert, remove before the empty check).              *)
(*                                                                         *)
(* Text is a sequence of one-character strings, so that trim, starts_with  *)
(* and strip_prefix are computed as the code computes them.                *)
(*                                                                         *)
(* Ghost state (not in the program): the fields id, by of an event, the    *)
(* field inst of a room, and the variables sent, cast, replay, loads,      *)
(* cur, everNamed, nextId, nextInst, nframes, leftAt.                      *)
(***************************************************************************)
EXTENDS Integers, Sequences, FiniteSets, TLC

\* ------------------------------------------------------------- bounds
\* Text frames handled in one run, all sessions together.
MaxFrames == 2
\* Records the store holds for room "lobby" when the server starts (for
\* room "den" it holds IN_MEMORY_CACHE_SIZE records).
MaxStored == 4

\* Connections of one run (a Uuid::new_v4 each); 0 is Option::None.
Sessions == {1, 2, 3}
NoSession == 0
RoomNames == {"lobby", "den"}
\* The room a connection's path may name: the last session alone may open
\* the second room.
RoomChoice(s) == IF s = 3 THEN RoomNames ELSE {"lobby"}
\* The sessions whose transport may start failing its sends.
Breakable == {1}

\* ---------------------------------------------------------- constants
\* state.rs: 50 and 1000, scaled down keeping CACHE < HISTORY < MaxStored.
IN_MEMORY_CACHE_SIZE == 2
MAX_HISTORY_SIZE == 3

\* ----------------------------------------------------------------- text
ANONYMOUS == <<"a", "n", "o", "n", "y", "m", "o", "u", "s">>
USER_PREFIX == <<"/", "u", "s", "e", "r", " ">>
HISTORY_CMD == <<"/", "h", "i", "s", "t", "o", "r", "y">>
\* The two inline notices (the back quotes of the source text are left out).
NOTICE_HISTORY == <<"Please set a username with /user <name> before loading history.">>
NOTICE_CHAT == <<"Please set a username with /user <name> before sending messages.">>

\* The text frames a client sends in this model.
Frames ==
    { USER_PREFIX \o <<"a", "l">>,
      <<" ">> \o USER_PREFIX \o <<" ", "a", "l", " ">>,
      USER_PREFIX \o ANONYMOUS,
      USER_PREFIX,
      HISTORY_CMD,
      <<"h", "i">>,
      <<" ">> }

\* The other items receiver.next() yields: a frame that is not Text, a
\* transport error (Some(Err)), the end of the stream (None).
OtherItems == {"Binary", "Ping", "Pong", "Close", "Err", "None"}

IsWhitespace(c) == c = " "

RECURSIVE TrimStart(_)
TrimStart(t) ==
    IF t = << >> THEN t
    ELSE IF IsWhitespace(Head(t)) THEN TrimStart(Tail(t)) ELSE t

RECURSIVE TrimEnd(_)
TrimEnd(t) ==
    IF t = << >> THEN t
    ELSE IF IsWhitespace(t[Len(t)]) THEN TrimEnd(SubSeq(t, 1, Len(t) - 1)) ELSE t

\* str::trim
Trim(t) == TrimEnd(TrimStart(t))

\* str::starts_with
StartsWith(t, p) == Len(t) >= Len(p) /\ SubSeq(t, 1, Len(p)) = p

\* str::strip_prefix, for a text that starts with p
StripPrefix(t, p) == SubSeq(t, Len(p) + 1, Len(t))

\* What a frame is to the client that sent it (ghost, for cur): a /user
\* command without a name, a /user command with one, a history request,
\* or content.
FrameClass(raw) ==
    LET text == Trim(raw)
        cmd == Trim(USER_PREFIX)
    IN  IF text = cmd THEN "user_empty"
        ELSE IF StartsWith(text, USER_PREFIX) THEN "set_username"
        ELSE IF text = HISTORY_CMD THEN "history"
        ELSE "content"

\* The dispatch of read_from_client on one text frame.
Intent(raw) ==
    LET text == Trim(raw) IN
    IF StartsWith(text, USER_PREFIX)
    THEN LET trimmed == Trim(StripPrefix(text, USER_PREFIX)) IN
         IF trimmed # << >>
         THEN [op |-> "set_username", arg |-> trimmed]
         ELSE [op |-> "none", arg |-> << >>]
    ELSE IF text = HISTORY_CMD
    THEN [op |-> "history", arg |-> << >>]
    ELSE [op |-> "chat", arg |-> text]

\* --------------------------------------------------------------- events
\* models.rs ServerMessage; id (creation number) and by (the session whose
\* handler built it, 0 for a record of an earlier run) are ghost fields.
UserJoined(u, i, s) ==
    [type |-> "UserJoined", username |-> u, content |-> << >>, id |-> i, by |-> s]
UserLeft(u, i, s) ==
    [type |-> "UserLeft", username |-> u, content |-> << >>, id |-> i, by |-> s]
NewMessage(u, c, i, s) ==
    [type |-> "NewMessage", username |-> u, content |-> c, id |-> i, by |-> s]
NoMessage ==
    [type |-> "None", username |-> << >>, content |-> << >>, id |-> 0, by |-> 0]

\* parse_message_for_display
ParseMessageForDisplay(m) ==
    IF m.type = "NewMessage" THEN <<"[">> \o m.username \o <<"] ">> \o m.content
    ELSE IF m.type = "UserJoined" THEN <<"--> ">> \o m.username \o <<" joined the room">>
    ELSE <<"<-- ">> \o m.username \o <<" left the room">>

\* serde_json::to_value of a #[serde(tag = "type")] enum: an object with the
\* variant name under "type" and the variant's own fields beside it.
ToJson(m) ==
    IF m.type = "NewMessage"
    THEN [tag |-> m.type, fields |-> <<m.username, m.content>>, id |-> m.id, by |-> m.by]
    ELSE [tag |-> m.type, fields |-> <<m.username>>, id |-> m.id, by |-> m.by]

\* serde_json::from_value into ServerMessage: Ok exactly for a known tag
\* with that variant's fields.
JsonOk(j) ==
    \/ j.tag = "NewMessage" /\ Len(j.fields) = 2
    \/ j.tag \in {"UserJoined", "UserLeft"} /\ Len(j.fields) = 1

FromJson(j) ==
    IF j.tag = "NewMessage" THEN NewMessage(j.fields[1], j.fields[2], j.id, j.by)
    ELSE IF j.tag = "UserJoined" THEN UserJoined(j.fields[1], j.id, j.by)
    ELSE UserLeft(j.fields[1], j.id, j.by)

\* ------------------------------------------------------------ the store
\* The messages table: per room, the rows in insertion order (save_message
\* is awaited under the lock, so timestamps follow the insertions).
\* A record of an earlier run of the server.
Earlier(i) ==
    IF i = 1 THEN UserJoined(<<"z">>, i, 0) ELSE NewMessage(<<"z">>, <<"o", "k">>, i, 0)

RECURSIVE Rev(_)
Rev(q) == IF q = << >> THEN q ELSE Append(Rev(Tail(q)), Head(q))

Take(q, n) == SubSeq(q, 1, IF Len(q) < n THEN Len(q) ELSE n)

RECURSIVE Decode(_)
\* The loop of load_history: a row that does not deserialize is skipped.
Decode(rows) ==
    IF rows = << >> THEN << >>
    ELSE IF JsonOk(Head(rows)) THEN <<FromJson(Head(rows))>> \o Decode(Tail(rows))
    ELSE Decode(Tail(rows))

\* load_history without the reversal of the rows selected.
LoadHistoryDesc(rows, limit, ok) ==
    IF ok THEN Decode(Take(Rev(rows), limit)) ELSE << >>

\* database::load_history: ORDER BY timestamp DESC LIMIT limit, reversed;
\* a failed query yields the empty deque.
LoadHistory(rows, limit, ok) ==
    IF ok THEN Decode(Rev(Take(Rev(rows), limit))) ELSE << >>

\* A save that inserts nothing.
SaveSkip(rows, m, ok) == rows

\* database::save_message: one INSERT; a failed INSERT is only logged.
SaveMessage(rows, m, ok) ==
    IF ok THEN Append(rows, ToJson(m)) ELSE rows

\* ---------------------------------------------------------------- state
VARIABLES
    rooms,      \* ChatState.rooms: room name -> Room, on the names present
    store,      \* the messages table: room name -> rows
    lock,       \* holder of the rooms mutex, NoSession when free
    pc,         \* where each connection's task stands
    roomOf,     \* room_name of handle_socket
    arg,        \* the handler's local username
    pend,       \* the handler's join_msg / new_msg / left_msg
    broken,     \* sessions whose sink returns Err on send
    sent,       \* ghost: per session, every send on its sink, in order
    cast,       \* ghost: the last call of broadcast_message
    replay,     \* ghost: the last history replay loop
    loads,      \* ghost: load_history calls in the room's current lifetime
    cur,        \* ghost: the text frame handled last: its sender and class
    everNamed,  \* ghost: sessions that ran handle_set_username
    nextId,     \* ghost: next event id
    nextInst,   \* ghost: next Room instance number
    nframes,    \* ghost: text frames handled so far
    storeUp,    \* whether the database answers the pool's queries
    leftAt      \* ghost: per session, the Room it was removed from and
                \* the sessions that stayed in it

vars == <<rooms, store, lock, pc, roomOf, arg, pend, broken, sent, cast, replay,
          loads, cur, everNamed, nextId, nextInst, nframes, storeUp, leftAt>>

\* HashMap insert / remove on a function
Put(f, k, v) == [x \in DOMAIN f \cup {k} |-> IF x = k THEN v ELSE f[x]]
Del(f, k) == [x \in DOMAIN f \ {k} |-> f[x]]

\* The gate of the handlers left open.
NeverAnonymous(username) == FALSE

\* The sentinel test of the handlers: client.username == "anonymous"
IsAnonymous(username) == username = ANONYMOUS

\* A departure announced whatever the name.
AlwaysBroadcast(username) == TRUE

\* cleanup_client: should_broadcast = username != "anonymous"
ShouldBroadcast(username) == username # ANONYMOUS

\* A hydrate on every set-name.
HydrateAlways(history) == TRUE

\* handle_set_username: room.history.is_empty()
NeedsHydrate(history) == history = << >>

\* Room::default()
DefaultRoom(i) == [clients |-> << >>, history |-> << >>, inst |-> i]

NoLoads == [hydrate |-> 0, full |-> 0]
NoCast ==
    [message |-> NoMessage, room |-> "", exclude |-> NoSession, members |-> {},
     targets |-> << >>, cached |-> FALSE]
NoLeft == [inst |-> 0, members |-> {}]
NoReplay ==
    [to |-> NoSession, op |-> "", source |-> << >>, cache |-> << >>, failed |-> FALSE]

Init ==
    /\ rooms = << >>
    /\ store = [r \in RoomNames |->
                  [i \in 1..(IF r = "lobby" THEN MaxStored ELSE IN_MEMORY_CACHE_SIZE)
                     |-> ToJson(Earlier(i))]]
    /\ lock = NoSession
    /\ pc = [s \in Sessions |-> "start"]
    /\ roomOf = [s \in Sessions |-> ""]
    /\ arg = [s \in Sessions |-> << >>]
    /\ pend = [s \in Sessions |-> NoMessage]
    /\ broken = {}
    /\ sent = [s \in Sessions |-> << >>]
    /\ cast = NoCast
    /\ replay = NoReplay
    /\ loads = [r \in RoomNames |-> NoLoads]
    /\ cur = [s |-> NoSession, class |-> ""]
    /\ everNamed = {}
    /\ nextId = MaxStored + 1
    /\ nextInst = 1
    /\ nframes = 0
    /\ storeUp \in BOOLEAN
    /\ leftAt = [s \in Sessions |-> NoLeft]

\* A store call answers (ok) or fails: in one run the store is reachable
\* for every call or for none.
StoreCall(ok) ==
    /\ ok = storeUp
    /\ UNCHANGED storeUp

\* ------------------------------------------------------------- sending
\* A send that overtakes what was sent before it.
SendFront(sn, s, text, m, via, ok) ==
    [sn EXCEPT ![s] = <<[text |-> text, ev |-> m.id, by |-> m.by, via |-> via,
                         ok |-> ok]>> \o @]

\* One send on the sink of session s, Ok or Err.  Beside the text sent the
\* entry keeps, as ghost fields, the id and originator of the event sent
\* (0 for a notice) and the code path that sent it.
Send(sn, s, text, m, via, ok) ==
    [sn EXCEPT ![s] = Append(@, [text |-> text, ev |-> m.id, by |-> m.by, via |-> via,
                                 ok |-> ok])]

\* The replay loops of handle_set_username and handle_load_full_history:
\* the messages are sent in order and the first Err ends the handler.  A
\* sink fails between the steps of the model, so that a replay to a broken
\* sink fails on its first send.
\* A replay that sends nothing.
ReplayNothing(sn, s, msgs, via) == sn

RECURSIVE ReplayLoop(_, _, _, _)
ReplayLoop(sn, s, msgs, via) ==
    IF msgs = << >> THEN sn
    ELSE IF s \in broken
    THEN Send(sn, s, ParseMessageForDisplay(Head(msgs)), Head(msgs), via, FALSE)
    ELSE ReplayLoop(Send(sn, s, ParseMessageForDisplay(Head(msgs)), Head(msgs), via, TRUE),
                    s, Tail(msgs), via)

\* Whether the replay loop met an Err (and the handler returned).
ReplayFailed(s, msgs) == msgs # << >> /\ s \in broken

\* HashMap iteration order of the client ids (one fixed order: the order
\* among recipients is not visible in any one recipient's sends).
RECURSIVE IterOrder(_)
IterOrder(ids) ==
    IF ids = {} THEN << >>
    ELSE LET m == CHOOSE x \in ids : \A y \in ids : x <= y
         IN <<m>> \o IterOrder(ids \ {m})

\* broadcast_message with the exclusion test left out.
FanOutToAll(order, exclude) == order

\* The loop of broadcast_message: the ids a send is attempted on.
RECURSIVE FanOut(_, _)
FanOut(order, exclude) ==
    IF order = << >> THEN << >>
    ELSE IF exclude # NoSession /\ Head(order) = exclude
    THEN FanOut(Tail(order), exclude)
    ELSE <<Head(order)>> \o FanOut(Tail(order), exclude)

\* A fan-out that ends at the first Err.
RECURSIVE SendUntilErr(_, _, _, _)
SendUntilErr(sn, targets, text, m) ==
    IF targets = << >> THEN sn
    ELSE IF Head(targets) \in broken
    THEN Send(sn, Head(targets), text, m, "cast", FALSE)
    ELSE SendUntilErr(Send(sn, Head(targets), text, m, "cast", TRUE),
                      Tail(targets), text, m)

\* The send loop of broadcast_message: an Err is logged and the loop goes on.
RECURSIVE SendAll(_, _, _, _)
SendAll(sn, targets, text, m) ==
    IF targets = << >> THEN sn
    ELSE SendAll(Send(sn, Head(targets), text, m, "cast", Head(targets) \notin broken),
                 Tail(targets), text, m)

\* The cache update of broadcast_message: push_back, then pop_front when
\* the length exceeds IN_MEMORY_CACHE_SIZE.
PushHistory(history, m) ==
    LET h == Append(history, m) IN
    IF Len(h) > IN_MEMORY_CACHE_SIZE THEN Tail(h) ELSE h

\* broadcast_message: the rooms map, the sends and the call's ghost record
\* after the call.
BroadcastMessage(rms, sn, message, room_name, exclude) ==
    IF room_name \in DOMAIN rms
    THEN LET room == rms[room_name]
             targets == FanOut(IterOrder(DOMAIN room.clients), exclude)
         IN [rooms |-> [rms EXCEPT ![room_name].history = PushHistory(@, message)],
             sent |-> SendAll(sn, targets, ParseMessageForDisplay(message), message),
             cast |-> [message |-> message, room |-> room_name, exclude |-> exclude,
                       members |-> DOMAIN room.clients, targets |-> targets,
                       cached |-> TRUE]]
    ELSE [rooms |-> rms, sent |-> sn,
          cast |-> [message |-> message, room |-> room_name, exclude |-> exclude,
                    members |-> {}, targets |-> << >>, cached |-> FALSE]]

\* -------------------------------------------------------- handle_socket
InRoom(s) == roomOf[s] \in DOMAIN rooms /\ s \in DOMAIN rooms[roomOf[s]].clients

\* An entry that puts a fresh Room under the name whatever is there.
EntryFresh(rms, r, i) == Put(rms, r, DefaultRoom(i))

\* rooms.entry(room_name).or_default()
EntryOrDefault(rms, r, i) == IF r \in DOMAIN rms THEN rms ELSE Put(rms, r, DefaultRoom(i))

\* A cleanup that leaves the emptied room in the map.
KeepRoom(rms, r) == rms

\* cleanup_client: if room.clients.is_empty() { rooms.remove(room_name) }
RemoveIfEmpty(rms, r) == IF DOMAIN rms[r].clients = {} THEN Del(rms, r) ELSE rms

\* handle_socket, lock().await and entry(room_name).or_default().  Session
\* ids are fresh random values, so the sessions connect in the order of
\* their numbers.
Connect(s, r) ==
    /\ pc[s] = "start"
    /\ \A x \in Sessions : x < s => pc[x] # "start"
    /\ lock = NoSession
    /\ lock' = s
    /\ roomOf' = [roomOf EXCEPT ![s] = r]
    /\ rooms' = EntryOrDefault(rooms, r, nextInst)
    /\ nextInst' = IF r \in DOMAIN rooms THEN nextInst ELSE nextInst + 1
    /\ loads' = [loads EXCEPT ![r] = IF r \in DOMAIN rooms THEN @ ELSE NoLoads]
    /\ pc' = [pc EXCEPT ![s] = "joining"]
    /\ UNCHANGED <<leftAt, store, arg, pend, broken, sent, cast, replay, cur, everNamed, nextId,
                   nframes, storeUp>>

\* handle_socket, room.clients.insert(client_id, client); the guard drops.
JoinInsert(s) ==
    /\ pc[s] = "joining"
    /\ rooms' = [rooms EXCEPT ![roomOf[s]].clients = Put(@, s, ANONYMOUS)]
    /\ lock' = NoSession
    /\ pc' = [pc EXCEPT ![s] = "reading"]
    /\ UNCHANGED <<leftAt, store, roomOf, arg, pend, broken, sent, cast, replay, loads, cur,
                   everNamed, nextId, nextInst, nframes, storeUp>>

\* ----------------------------------------------------- read_from_client
\* receiver.next() yields Some(Ok(Message::Text(t))).
TakeFrame(s, t) ==
    /\ pc[s] = "reading"
    /\ nframes < MaxFrames
    /\ nframes' = nframes + 1
    /\ cur' = [s |-> s, class |-> FrameClass(t)]

\* A frame no handler acts on: "/user " with nothing left after the trims
\* (the inner if yields None), or content that handle_chat_message finds
\* empty after trim.
Dropped(t) ==
    LET i == Intent(t) IN
    IF i.op = "none" THEN TRUE ELSE i.op = "chat" /\ Trim(i.arg) = << >>

RecvDropped(s, t) ==
    /\ TakeFrame(s, t)
    /\ Dropped(t)
    /\ UNCHANGED <<leftAt, rooms, store, lock, pc, roomOf, arg, pend, broken, sent, cast, replay,
                   loads, everNamed, nextId, nextInst, storeUp>>

\* The transport of a connected session starts failing its sends.
SinkBreak(s) ==
    /\ InRoom(s)
    /\ s \in Breakable
    /\ s \notin broken
    /\ broken' = broken \cup {s}
    /\ UNCHANGED <<leftAt, rooms, store, lock, pc, roomOf, arg, pend, sent, cast, replay, loads,
                   cur, everNamed, nextId, nextInst, nframes, storeUp>>

\* -------------------------------------------------- handle_set_username
\* lock().await, rooms.get_mut(room_name), room.history.is_empty()
SetUsernameBegin(s, t) ==
    /\ TakeFrame(s, t)
    /\ Intent(t).op = "set_username"
    /\ lock = NoSession
    /\ everNamed' = everNamed \cup {s}
    /\ IF roomOf[s] \in DOMAIN rooms
       THEN /\ lock' = s
            /\ arg' = [arg EXCEPT ![s] = Intent(t).arg]
            /\ pc' = [pc EXCEPT ![s] =
                        IF NeedsHydrate(rooms[roomOf[s]].history)
                        THEN "su_load" ELSE "su_send"]
       ELSE UNCHANGED <<lock, arg, pc>>
    /\ UNCHANGED <<leftAt, rooms, store, roomOf, pend, broken, sent, cast, replay, loads, nextId,
                   nextInst, storeUp>>

\* room.history = database::load_history(.., MAX_HISTORY_SIZE).await
SetUsernameLoad(s, ok) ==
    /\ pc[s] = "su_load"
    /\ StoreCall(ok)
    /\ rooms' = [rooms EXCEPT ![roomOf[s]].history =
                    LoadHistory(store[roomOf[s]], MAX_HISTORY_SIZE, ok)]
    /\ loads' = [loads EXCEPT ![roomOf[s]].hydrate = @ + 1]
    /\ pc' = [pc EXCEPT ![s] = "su_send"]
    /\ UNCHANGED <<leftAt, store, lock, roomOf, arg, pend, broken, sent, cast, replay, cur,
                   everNamed, nextId, nextInst, nframes>>

\* The rename, the replay loop and, unless a replay send failed, the
\* broadcast of UserJoined with the requester excluded.
SetUsernameSend(s) ==
    /\ pc[s] = "su_send"
    /\ LET r == roomOf[s]
           room == rooms[r]
           present == s \in DOMAIN room.clients
           msgs == IF present THEN room.history ELSE << >>
           renamed == IF present THEN [rooms EXCEPT ![r].clients[s] = arg[s]] ELSE rooms
           join_msg == UserJoined(arg[s], nextId, s)
           b == BroadcastMessage(renamed, ReplayLoop(sent, s, msgs, "replay"),
                                 join_msg, r, s)
       IN  /\ replay' = [to |-> s, op |-> "set_username", source |-> msgs,
                         cache |-> room.history, failed |-> ReplayFailed(s, msgs)]
           /\ IF ReplayFailed(s, msgs)
              THEN /\ rooms' = renamed
                   /\ sent' = ReplayLoop(sent, s, msgs, "replay")
                   /\ lock' = NoSession
                   /\ pc' = [pc EXCEPT ![s] = "reading"]
                   /\ arg' = [arg EXCEPT ![s] = << >>]
                   /\ UNCHANGED <<pend, cast, nextId>>
              ELSE /\ rooms' = b.rooms
                   /\ sent' = b.sent
                   /\ cast' = b.cast
                   /\ pend' = [pend EXCEPT ![s] = join_msg]
                   /\ nextId' = nextId + 1
                   /\ pc' = [pc EXCEPT ![s] = "su_save"]
                   /\ UNCHANGED <<lock, arg>>
    /\ UNCHANGED <<leftAt, store, roomOf, broken, loads, cur, everNamed, nextInst, nframes,
                   storeUp>>

\* A save whose failure takes the event back out of the cache.
SetUsernameSaveUndo(s, ok) ==
    /\ pc[s] = "su_save"
    /\ StoreCall(ok)
    /\ store' = [store EXCEPT ![roomOf[s]] = SaveMessage(@, pend[s], ok)]
    /\ rooms' = IF ok THEN rooms
                ELSE [rooms EXCEPT ![roomOf[s]].history = SubSeq(@, 1, Len(@) - 1)]
    /\ lock' = NoSession
    /\ pc' = [pc EXCEPT ![s] = "reading"]
    /\ arg' = [arg EXCEPT ![s] = << >>]
    /\ pend' = [pend EXCEPT ![s] = NoMessage]
    /\ UNCHANGED <<leftAt, roomOf, broken, sent, cast, replay, loads, cur, everNamed,
                   nextId, nextInst, nframes>>

\* database::save_message(.., &join_msg).await; the guard drops at return.
SetUsernameSave(s, ok) ==
    /\ pc[s] = "su_save"
    /\ StoreCall(ok)
    /\ store' = [store EXCEPT ![roomOf[s]] = SaveMessage(@, pend[s], ok)]
    /\ lock' = NoSession
    /\ pc' = [pc EXCEPT ![s] = "reading"]
    /\ arg' = [arg EXCEPT ![s] = << >>]
    /\ pend' = [pend EXCEPT ![s] = NoMessage]
    /\ UNCHANGED <<leftAt, rooms, roomOf, broken, sent, cast, replay, loads, cur, everNamed,
                   nextId, nextInst, nframes>>

\* --------------------------------------------- handle_load_full_history
\* lock().await, the two lookups and the anonymous check.
HistoryBegin(s, t) ==
    /\ TakeFrame(s, t)
    /\ Intent(t).op = "history"
    /\ lock = NoSession
    /\ IF InRoom(s)
       THEN IF IsAnonymous(rooms[roomOf[s]].clients[s])
            THEN /\ sent' = Send(sent, s, NOTICE_HISTORY, NoMessage, "notice", s \notin broken)
                 /\ UNCHANGED <<lock, pc>>
            ELSE /\ lock' = s
                 /\ pc' = [pc EXCEPT ![s] = "hi_load"]
                 /\ UNCHANGED sent
       ELSE UNCHANGED <<lock, pc, sent>>
    /\ UNCHANGED <<leftAt, rooms, store, roomOf, arg, pend, broken, cast, replay, loads,
                   everNamed, nextId, nextInst, storeUp>>

\* A history request that keeps what it loaded as the room's cache.
HistoryLoadIntoCache(s, ok) ==
    /\ pc[s] = "hi_load"
    /\ StoreCall(ok)
    /\ LET full_history == LoadHistory(store[roomOf[s]], MAX_HISTORY_SIZE, ok) IN
       /\ sent' = ReplayLoop(sent, s, full_history, "full_history")
       /\ replay' = [to |-> s, op |-> "history", source |-> full_history,
                     cache |-> rooms[roomOf[s]].history,
                     failed |-> ReplayFailed(s, full_history)]
       /\ rooms' = [rooms EXCEPT ![roomOf[s]].history = full_history]
    /\ loads' = [loads EXCEPT ![roomOf[s]].full = @ + 1]
    /\ lock' = NoSession
    /\ pc' = [pc EXCEPT ![s] = "reading"]
    /\ UNCHANGED <<leftAt, store, roomOf, arg, pend, broken, cast, cur, everNamed, nextId,
                   nextInst, nframes>>

\* full_history = database::load_history(..).await and its replay loop.
HistoryLoad(s, ok) ==
    /\ pc[s] = "hi_load"
    /\ StoreCall(ok)
    /\ LET full_history == LoadHistory(store[roomOf[s]], MAX_HISTORY_SIZE, ok) IN
       /\ sent' = ReplayLoop(sent, s, full_history, "full_history")
       /\ replay' = [to |-> s, op |-> "history", source |-> full_history,
                     cache |-> rooms[roomOf[s]].history,
                     failed |-> ReplayFailed(s, full_history)]
    /\ loads' = [loads EXCEPT ![roomOf[s]].full = @ + 1]
    /\ lock' = NoSession
    /\ pc' = [pc EXCEPT ![s] = "reading"]
    /\ UNCHANGED <<leftAt, rooms, store, roomOf, arg, pend, broken, cast, cur, everNamed, nextId,
                   nextInst, nframes>>

\* -------------------------------------------------- handle_chat_message
\* The gate on the sender's name, then the broadcast of NewMessage with
\* the sender excluded.
ChatBegin(s, t) ==
    /\ TakeFrame(s, t)
    /\ Intent(t).op = "chat"
    /\ Trim(Intent(t).arg) # << >>
    /\ lock = NoSession
    /\ IF InRoom(s)
       THEN LET username == rooms[roomOf[s]].clients[s]
                new_msg == NewMessage(username, Intent(t).arg, nextId, s)
                b == BroadcastMessage(rooms, sent, new_msg, roomOf[s], s)
            IN  IF IsAnonymous(username)
                THEN /\ sent' = Send(sent, s, NOTICE_CHAT, NoMessage, "notice", s \notin broken)
                     /\ UNCHANGED <<rooms, lock, pc, pend, cast, nextId>>
                ELSE /\ rooms' = b.rooms
                     /\ sent' = b.sent
                     /\ cast' = b.cast
                     /\ pend' = [pend EXCEPT ![s] = new_msg]
                     /\ nextId' = nextId + 1
                     /\ lock' = s
                     /\ pc' = [pc EXCEPT ![s] = "cm_save"]
       ELSE UNCHANGED <<rooms, lock, pc, pend, sent, cast, nextId>>
    /\ UNCHANGED <<leftAt, store, roomOf, arg, broken, replay, loads, everNamed, nextInst,
                   storeUp>>

\* database::save_message(.., &new_msg).await; the guard drops at return.
ChatSave(s, ok) ==
    /\ pc[s] = "cm_save"
    /\ StoreCall(ok)
    /\ store' = [store EXCEPT ![roomOf[s]] = SaveMessage(@, pend[s], ok)]
    /\ lock' = NoSession
    /\ pc' = [pc EXCEPT ![s] = "reading"]
    /\ pend' = [pend EXCEPT ![s] = NoMessage]
    /\ UNCHANGED <<leftAt, rooms, roomOf, arg, broken, sent, cast, replay, loads, cur, everNamed,
                   nextId, nextInst, nframes>>

\* ------------------------------------------------------- cleanup_client
\* receiver.next() yields anything but a text frame: the while-let loop of
\* read_from_client ends and handle_socket calls cleanup_client.  First
\* lock: room.clients.remove(&client_id); username and should_broadcast
\* (username != "anonymous") are kept in arg.
CleanupRemove(s, item) ==
    /\ pc[s] = "reading"
    /\ item \in OtherItems
    /\ lock = NoSession
    /\ IF roomOf[s] \in DOMAIN rooms
       THEN /\ rooms' = IF InRoom(s)
                        THEN [rooms EXCEPT ![roomOf[s]].clients = Del(@, s)]
                        ELSE rooms
            /\ arg' = [arg EXCEPT ![s] =
                         IF InRoom(s) THEN rooms[roomOf[s]].clients[s] ELSE ANONYMOUS]
            /\ lock' = s
            /\ pc' = [pc EXCEPT ![s] = "cl_empty"]
       ELSE /\ arg' = [arg EXCEPT ![s] = ANONYMOUS]
            /\ pc' = [pc EXCEPT ![s] = "done"]
            /\ UNCHANGED <<rooms, lock>>
    /\ leftAt' = [leftAt EXCEPT ![s] =
                       IF roomOf[s] \in DOMAIN rooms
                       THEN [inst |-> rooms[roomOf[s]].inst,
                             members |-> DOMAIN rooms[roomOf[s]].clients \ {s}]
                       ELSE NoLeft]
    /\ UNCHANGED <<store, roomOf, pend, broken, sent, cast, replay, loads, cur, everNamed,
                   nextId, nextInst, nframes, storeUp>>

\* Still the first lock: room.clients.is_empty() and rooms.remove; the
\* guard drops.  A removed room's load counts start over.
CleanupEmpty(s) ==
    /\ pc[s] = "cl_empty"
    /\ rooms' = RemoveIfEmpty(rooms, roomOf[s])
    /\ loads' = [loads EXCEPT ![roomOf[s]] = IF roomOf[s] \in DOMAIN rooms' THEN @ ELSE NoLoads]
    /\ lock' = NoSession
    /\ pc' = [pc EXCEPT ![s] = IF ShouldBroadcast(arg[s]) THEN "cl_cast" ELSE "done"]
    /\ UNCHANGED <<leftAt, store, roomOf, arg, pend, broken, sent, cast, replay, cur, everNamed,
                   nextId, nextInst, nframes, storeUp>>

\* Second lock: broadcast_message(left_msg, .., None).
CleanupBroadcast(s) ==
    /\ pc[s] = "cl_cast"
    /\ lock = NoSession
    /\ LET left_msg == UserLeft(arg[s], nextId, s)
           b == BroadcastMessage(rooms, sent, left_msg, roomOf[s], NoSession)
       IN  /\ rooms' = b.rooms
           /\ sent' = b.sent
           /\ cast' = b.cast
           /\ pend' = [pend EXCEPT ![s] = left_msg]
    /\ nextId' = nextId + 1
    /\ lock' = s
    /\ pc' = [pc EXCEPT ![s] = "cl_save"]
    /\ UNCHANGED <<leftAt, store, roomOf, arg, broken, replay, loads, cur, everNamed, nextInst,
                   nframes, storeUp>>

\* database::save_message(.., &left_msg).await; the second guard drops.
CleanupSave(s, ok) ==
    /\ pc[s] = "cl_save"
    /\ StoreCall(ok)
    /\ store' = [store EXCEPT ![roomOf[s]] = SaveMessage(@, pend[s], ok)]
    /\ lock' = NoSession
    /\ pc' = [pc EXCEPT ![s] = "done"]
    /\ pend' = [pend EXCEPT ![s] = NoMessage]
    /\ UNCHANGED <<leftAt, rooms, roomOf, arg, broken, sent, cast, replay, loads, cur, everNamed,
                   nextId, nextInst, nframes>>

\* ------------------------------------------------------- specification
Next ==
    \E s \in Sessions :
        \/ \E r \in RoomChoice(s) : Connect(s, r)
        \/ JoinInsert(s)
        \/ \E t \in Frames : RecvDropped(s, t)
        \/ SinkBreak(s)
        \/ \E t \in Frames : SetUsernameBegin(s, t)
        \/ \E ok \in BOOLEAN : SetUsernameLoad(s, ok)
        \/ SetUsernameSend(s)
        \/ \E ok \in BOOLEAN : SetUsernameSave(s, ok)
        \/ \E t \in Frames : HistoryBegin(s, t)
        \/ \E ok \in BOOLEAN : HistoryLoad(s, ok)
        \/ \E t \in Frames : ChatBegin(s, t)
        \/ \E ok \in BOOLEAN : ChatSave(s, ok)
        \/ \E item \in OtherItems : CleanupRemove(s, item)
        \/ CleanupEmpty(s)
        \/ CleanupBroadcast(s)
        \/ \E ok \in BOOLEAN : CleanupSave(s, ok)

Spec == Init /\ [][Next]_vars

\* ================================================================ claims
Range(q) == {q[i] : i \in 1..Len(q)}

\* The number of sends of event id by broadcast_message on the sink of s.
CastCount(s, id) == Cardinality({i \in 1..Len(sent[s]) :
                                    sent[s][i].via = "cast" /\ sent[s][i].ev = id})

\* Oldest first: the creation numbers grow along the sequence.
Chronological(q) == \A i, j \in 1..Len(q) : i < j => q[i].id < q[j].id

\* ------------------------------------------------------------------- C1
\* C1: in every reachable state every room's cache holds at most
\* IN_MEMORY_CACHE_SIZE events, oldest first.
C1_CacheBound ==
    \A r \in DOMAIN rooms :
        /\ Len(rooms[r].history) <= IN_MEMORY_CACHE_SIZE
        /\ Chronological(rooms[r].history)

\* ------------------------------------------------------------------- C2
\* C2: a call broadcast_message(event, room, exclude) attempts no send to
\* the excluded session and exactly one send, of the rendered event, to
\* every other session of the room's client map; NewMessage and UserJoined
\* are broadcast with their originator excluded.
C2_BroadcastExclusion ==
    cast # NoCast =>
        /\ Range(cast.targets) = cast.members \ {cast.exclude}
        /\ Len(cast.targets) = Cardinality(Range(cast.targets))
        /\ \A s \in Sessions :
             CastCount(s, cast.message.id) =
                 IF s \in cast.members /\ s # cast.exclude THEN 1 ELSE 0
        /\ \A s \in Sessions : \A i \in 1..Len(sent[s]) :
             sent[s][i].via = "cast" =>
                 /\ sent[s][i].by # s
                 /\ sent[s][i].ev = cast.message.id =>
                        sent[s][i].text = ParseMessageForDisplay(cast.message)
        /\ cast.message.type \in {"NewMessage", "UserJoined"} =>
             cast.exclude = cast.message.by

\* A NewMessage was broadcast in a room of three: its sender got no send
\* of it and the two others got one each.
C2_Witness ==
    /\ cast.message.type = "NewMessage"
    /\ Cardinality(cast.members) = 3
    /\ cast.exclude \in cast.members
    /\ \E s \in cast.members \ {cast.exclude} : CastCount(s, cast.message.id) = 1

KnownEvents ==
    UNION {Range(rooms[r].history) : r \in DOMAIN rooms}
        \cup UNION {Range(Decode(store[r])) : r \in RoomNames}
        \cup {pend[s] : s \in Sessions} \cup {cast.message}

\* C4: a session that never handled a set-name intent originates no event
\* (no NewMessage is cached, broadcast or persisted for it) and is sent no
\* replay by /history; it is sent every broadcast made in its room.
C4_AnonymousGating ==
    /\ \A m \in KnownEvents : m.by \in Sessions => m.by \in everNamed
    /\ \A s \in Sessions : \A i \in 1..Len(sent[s]) :
         /\ sent[s][i].by \in Sessions => sent[s][i].by \in everNamed
         /\ s \notin everNamed => sent[s][i].via \in {"cast", "notice"}
    /\ \A s \in cast.members \ everNamed : CastCount(s, cast.message.id) = 1

\* A session that never set a name was refused (an inline notice) and was
\* sent a broadcast of its room.
C4_Witness ==
    \E s \in Sessions \ everNamed :
        /\ \E i \in 1..Len(sent[s]) : sent[s][i].via = "notice"
        /\ \E i \in 1..Len(sent[s]) : sent[s][i].via = "cast"

\* ------------------------------------------------------------------- C5
LeftText(m) == ParseMessageForDisplay(UserLeft(m.username, m.id, m.by))

\* The sends, by broadcast_message, of a UserLeft originated by s, as
\* positions of the log of t (a later history replay may send it again).
LeftSends(t, s) ==
    {i \in 1..Len(sent[t]) :
        sent[t][i].via = "cast" /\ sent[t][i].by = s /\ Head(sent[t][i].text) = "<-- "}

\* The events of a sequence that are a UserLeft originated by s.
LeftIn(q, s) == {i \in 1..Len(q) : q[i].type = "UserLeft" /\ q[i].by = s}

\* C5: the disconnect of a session whose name is not the sentinel builds
\* one UserLeft{name} and sends it once to every session then in the room,
\* after every event broadcast before it; the disconnect of an anonymous
\* session builds none.
C5_DepartureBroadcast ==
    /\ [][\A s \in Sessions :
            pc[s] = "cl_cast" /\ pc'[s] # "cl_cast" =>
                /\ pend'[s] = UserLeft(arg[s], nextId, s)
                /\ cast'.message = pend'[s]
                /\ \A t \in Sessions :
                     IF roomOf[s] \in DOMAIN rooms /\ t \in DOMAIN rooms[roomOf[s]].clients
                     THEN /\ Len(sent'[t]) = Len(sent[t]) + 1
                          /\ SubSeq(sent'[t], 1, Len(sent[t])) = sent[t]
                          /\ sent'[t][Len(sent'[t])].ev = nextId
                          /\ sent'[t][Len(sent'[t])].via = "cast"
                          /\ sent'[t][Len(sent'[t])].text = LeftText(pend'[s])
                     ELSE sent'[t] = sent[t]]_vars
    /\ [](\A s \in Sessions :
            /\ \A t \in Sessions :
                 /\ Cardinality(LeftSends(t, s)) <= 1
                 /\ \A i \in LeftSends(t, s) : \A j \in 1..Len(sent[t]) :
                      sent[t][j].via = "cast" /\ j # i =>
                          (j < i <=> sent[t][j].ev < sent[t][i].ev)
            /\ \A r \in DOMAIN rooms : Cardinality(LeftIn(rooms[r].history, s)) <= 1
            /\ \A r \in RoomNames : Cardinality(LeftIn(Decode(store[r]), s)) <= 1
            /\ pc[s] = "done" /\ ShouldBroadcast(arg[s]) /\ storeUp =>
                 Cardinality(LeftIn(Decode(store[roomOf[s]]), s)) = 1
            /\ ~(pc[s] \in {"cl_save", "done"} /\ arg[s] # ANONYMOUS) =>
                 /\ \A t \in Sessions : LeftSends(t, s) = {}
                 /\ \A m \in KnownEvents : ~(m.type = "UserLeft" /\ m.by = s))

\* A named session has gone, and a session that stayed was sent its
\* UserLeft after an earlier broadcast.
C5_Witness ==
    \E s, t \in Sessions :
        /\ pc[s] = "done"
        /\ arg[s] # ANONYMOUS
        /\ \E i \in LeftSends(t, s) : i > 1 /\ sent[t][i - 1].via = "cast"
        /\ \E u \in Sessions : pc[u] = "done" /\ arg[u] = ANONYMOUS

\* ------------------------------------------------------------------- C6
\* C6: whenever the rooms mutex is free, no room of the map has an empty
\* client map: the removal of a room's last session and the removal of
\* the room happen under one guard (and so do or_default and insert).
C6_NoEmptyRoomVisible ==
    lock = NoSession => \A r \in DOMAIN rooms : DOMAIN rooms[r].clients # {}

\* The last session of a room has been removed, the guard is dropped and
\* the room is gone from the map.
C6_Witness ==
    \E s \in Sessions :
        /\ pc[s] \in {"cl_cast", "done"}
        /\ lock = NoSession
        /\ roomOf[s] \notin DOMAIN rooms
        /\ \E t \in Sessions \ {s} : pc[t] = "reading"

\* ------------------------------------------------------------------- C7
\* A session between the end of its join and the start of its cleanup.
Joined(s) == pc[s] \in {"reading", "su_load", "su_send", "su_save", "hi_load", "cm_save"}

\* A session whose removal (first guard of cleanup_client) is complete.
Cleaned(s) == pc[s] \in {"cl_cast", "cl_save", "done"}

\* The room names under which s is a client.
MemberOf(s) == {r \in DOMAIN rooms : s \in DOMAIN rooms[r].clients}

\* C7: a joined session is a client of the Room registered under its room
\* name and of no other, a cleaned-up session is a client of none; the
\* Room under a name is never replaced by another while it is in the map,
\* and no two names hold the same Room.
C7_NoLostJoin ==
    /\ [](\A s \in Sessions :
            /\ Joined(s) => MemberOf(s) = {roomOf[s]}
            /\ Cleaned(s) => MemberOf(s) = {})
    /\ [](\A r1, r2 \in DOMAIN rooms : r1 # r2 => rooms[r1].inst # rooms[r2].inst)
    /\ [][\A r \in DOMAIN rooms \cap DOMAIN rooms' : rooms'[r].inst = rooms[r].inst]_vars

\* A room removed by a disconnect has been created again by a join: the
\* joined session is in the second Room while the one that left still has
\* its departure to announce.
C7_Witness ==
    \E s, t \in Sessions :
        /\ pc[s] = "cl_cast"
        /\ Joined(t)
        /\ roomOf[t] = roomOf[s]
        /\ rooms[roomOf[t]].inst > 1

\* ------------------------------------------------------------------- C8
\* C8: every call of handle_set_username, whether or not a send of its
\* history replay fails, builds one UserJoined{username}, pushes it on the
\* cache, broadcasts it with the requester excluded and saves it.
C8_JoinedOnEverySetName ==
    [][\A s \in Sessions :
         /\ pc[s] = "su_send" /\ pc'[s] # "su_send" =>
              LET m == UserJoined(arg[s], nextId, s)
                  h == rooms'[roomOf[s]].history
              IN  /\ pc'[s] = "su_save"
                  /\ pend'[s] = m
                  /\ h # << >> /\ h[Len(h)] = m
                  /\ cast'.message = m
                  /\ cast'.exclude = s
                  /\ Range(cast'.targets) = DOMAIN rooms[roomOf[s]].clients \ {s}
         /\ pc[s] = "su_save" /\ pc'[s] # "su_save" /\ storeUp =>
              store'[roomOf[s]] = Append(store[roomOf[s]], ToJson(pend[s]))]_vars

\* ------------------------------------------------------------------- C9
\* The sink log entries of a replay of q that met no Err.
Rendered(q, via) ==
    [i \in 1..Len(q) |->
        [text |-> ParseMessageForDisplay(q[i]), ev |-> q[i].id, by |-> q[i].by,
         via |-> via, ok |-> TRUE]]

\* The up to MAX_HISTORY_SIZE most recent records of room r, oldest first.
RecentRows(r) ==
    LET rows == store[r]
        n == Len(rows)
        k == IF n > MAX_HISTORY_SIZE THEN n - MAX_HISTORY_SIZE ELSE 0
    IN  [i \in 1..(n - k) |-> FromJson(rows[k + i])]

C10_RejectedIntent ==
    [][nframes' = nframes + 1 =>
         LET s == cur'.s
             rejected ==
                 \/ cur'.class = "user_empty"
                 \/ /\ cur'.class \in {"content", "history"}
                    /\ rooms[roomOf[s]].clients[s] = ANONYMOUS
         IN  rejected =>
                 /\ rooms' = rooms
                 /\ store' = store
                 /\ cast' = cast
                 /\ pc' = pc
                 /\ \A t \in Sessions \ {s} : sent'[t] = sent[t]
                 /\ \/ sent'[s] = sent[s]
                    \/ /\ Len(sent'[s]) = Len(sent[s]) + 1
                       /\ SubSeq(sent'[s], 1, Len(sent[s])) = sent[s]
                       /\ sent'[s][Len(sent'[s])].via = "notice"]_vars

\* ------------------------------------------------------------------ C11
\* The sends of event id by broadcast_message on the sink of s that
\* returned Err.
CastErr(s, id) ==
    {i \in 1..Len(sent[s]) :
        sent[s][i].via = "cast" /\ sent[s][i].ev = id /\ ~sent[s][i].ok}

\* C11: every target of a fan-out is sent the event, whatever the sends to
\* the targets before it returned; a session whose sink fails stays in the
\* client map, which a session leaves only by the removal of its own
\* cleanup_client.
C11_FailureIsolated ==
    /\ [](cast # NoCast =>
            \A i \in 1..Len(cast.targets) :
                CastCount(cast.targets[i], cast.message.id) = 1)
    /\ [](\A s \in broken : Joined(s) => MemberOf(s) = {roomOf[s]})
    /\ [][\A s \in Sessions : \A r \in DOMAIN rooms :
            s \in DOMAIN rooms[r].clients
            /\ ~(r \in DOMAIN rooms' /\ s \in DOMAIN rooms'[r].clients) =>
                pc[s] = "reading" /\ pc'[s] = "cl_empty"]_vars

\* A fan-out whose first send returned Err and whose later target was sent
\* the event; the failing session is still a client of the room.
C11_Witness ==
    /\ Len(cast.targets) >= 2
    /\ CastErr(cast.targets[1], cast.message.id) # {}
    /\ CastCount(cast.targets[2], cast.message.id) = 1
    /\ CastErr(cast.targets[2], cast.message.id) = {}
    /\ cast.targets[1] \in DOMAIN rooms[cast.room].clients

\* ------------------------------------------------------------------ C12
\* The positions in the log of s of the broadcast sends of event id.
CastAt(s, id) ==
    {i \in 1..Len(sent[s]) : sent[s][i].via = "cast" /\ sent[s][i].ev = id}

\* C12: the broadcasts a session is sent come in the order in which the
\* events were built under the lock, and for two events of a room's cache
\* every session sent both by broadcast was sent the earlier one first.
C12_PerRoomFifo ==
    /\ \A s \in Sessions : \A i, j \in 1..Len(sent[s]) :
         i < j /\ sent[s][i].via = "cast" /\ sent[s][j].via = "cast" =>
             sent[s][i].ev < sent[s][j].ev
    /\ \A r \in DOMAIN rooms : \A i, j \in 1..Len(rooms[r].history) :
         i < j =>
             \A s \in Sessions :
                 \A a \in CastAt(s, rooms[r].history[i].id) :
                     \A b \in CastAt(s, rooms[r].history[j].id) : a < b

\* Two events of one cache, both sent by broadcast to the same session.
C12_Witness ==
    \E r \in DOMAIN rooms : \E i, j \in 1..Len(rooms[r].history) :
        /\ i < j
        /\ \E s \in Sessions :
             /\ CastAt(s, rooms[r].history[i].id) # {}
             /\ CastAt(s, rooms[r].history[j].id) # {}

\* ------------------------------------------------------------------ C13
\* The places where a handler awaits database::load_history or
\* database::save_message.
AtStoreCall(s) == pc[s] \in {"su_load", "su_save", "hi_load", "cm_save", "cl_save"}

\* C13: no handler awaits a store call while it holds the rooms mutex.
C13_StoreCallsOutsideLock ==
    \A s \in Sessions : AtStoreCall(s) => lock # s

\* ------------------------------------------------------------------ C14
\* The sessions whose sink never completes a send (a consumer that does
\* not read): sender.send(..).await on it stays pending.
Slow == {2}

\* A step in which no send on a slow sink completes.  A handler whose next
\* step sends on such a sink stays where it is, with what it holds.
NextStall ==
    /\ Next
    /\ \A t \in Slow : sent'[t] = sent[t]

\* The steps of the task of s that need no input: the rest of a handler
\* after its lock().await.  The runtime schedules every task that can run.
Continue(s) ==
    \/ JoinInsert(s)
    \/ \E ok \in BOOLEAN : SetUsernameLoad(s, ok)
    \/ SetUsernameSend(s)
    \/ \E ok \in BOOLEAN : SetUsernameSave(s, ok)
    \/ \E ok \in BOOLEAN : HistoryLoad(s, ok)
    \/ \E ok \in BOOLEAN : ChatSave(s, ok)
    \/ CleanupEmpty(s)
    \/ \E ok \in BOOLEAN : CleanupSave(s, ok)

SpecStall ==
    /\ Init
    /\ [][NextStall]_vars
    /\ \A s \in Sessions : WF_vars(Continue(s) /\ \A t \in Slow : sent'[t] = sent[t])

\* C14: with a consumer that never completes a send, a handler that holds
\* the rooms mutex still releases it, so that the operations of the other
\* sessions are eventually processed.
C14_SlowConsumerIsolated ==
    \A s \in Sessions : (lock = s) ~> (lock # s)

\* ------------------------------------------------------------------ C15
\* The places where a handler awaits save_message for the event it has
\* just handed to broadcast_message.
SavePcs == {"su_save", "cm_save", "cl_save"}

\* A handler that awaits save_message holds the lock and saves the event
\* of the last broadcast.
SaveIsOfLastBroadcast ==
    \A s \in Sessions :
        pc[s] \in SavePcs => lock = s /\ pend[s] = cast.message /\ cast.room = roomOf[s]

\* Every event is built, handed to broadcast_message and saved in one lock
\* section: a broadcast starts with no save pending and its handler then
\* saves that event.  With CachedOnly, the broadcast pushed the event on
\* the cache of its room; without, it may also be the UserLeft of a room
\* that is gone.
BroadcastThenSave(CachedOnly) ==
    \A s \in Sessions :
        /\ pc[s] \notin SavePcs /\ pc'[s] \in SavePcs =>
             /\ \A t \in Sessions : pc[t] \notin SavePcs
             /\ cast'.message.id = nextId
             /\ nextId' = nextId + 1
             /\ \/ /\ cast'.cached
                   /\ cast'.room \in DOMAIN rooms'
                   /\ LET h == rooms'[cast'.room].history
                      IN  h # << >> /\ h[Len(h)] = cast'.message
                \/ /\ ~CachedOnly
                   /\ ~cast'.cached
                   /\ cast'.message.type = "UserLeft"
                   /\ cast'.room \notin DOMAIN rooms
                   /\ rooms' = rooms
        /\ pc[s] \in SavePcs /\ pc'[s] \notin SavePcs /\ storeUp =>
             store' = [store EXCEPT ![roomOf[s]] = Append(@, ToJson(cast.message))]

\* Nothing is saved but by the save of a broadcast's handler, and a cache
\* changes by nothing but the push of a broadcast or the assignment of a
\* hydrate.
NoOtherSaveOrPush ==
    /\ store' # store => \E s \in Sessions : pc[s] \in SavePcs /\ pc'[s] \notin SavePcs
    /\ \A r \in DOMAIN rooms \cap DOMAIN rooms' :
         rooms'[r].history # rooms[r].history =>
             \E s \in Sessions :
                 \/ pc[s] = "su_load"
                 \/ pc[s] \notin SavePcs /\ pc'[s] \in SavePcs /\ cast'.room = r

\* C15 as stated: while the store answers, the events saved for a room
\* name are the events pushed on the caches of the rooms of that name,
\* each once and in the same order, and no others.
C15_StoreMirrorsCache ==
    /\ []SaveIsOfLastBroadcast
    /\ [][BroadcastThenSave(TRUE) /\ NoOtherSaveOrPush]_vars

\* C15, amended: the same, but for the UserLeft of a session whose room is
\* gone when its departure is broadcast: it is saved and pushed on no cache.
C15_StoreMirrorsCacheButLast ==
    /\ []SaveIsOfLastBroadcast
    /\ [][BroadcastThenSave(FALSE) /\ NoOtherSaveOrPush]_vars

\* No handler in progress, the store answers, the UserLeft built last was
\* saved for a room that was gone, and an event pushed on a cache was
\* saved before it.
C15_Witness ==
    /\ lock = NoSession
    /\ storeUp
    /\ cast.message.type = "UserLeft"
    /\ ~cast.cached
    /\ LET rows == store[cast.room]
       IN  /\ Len(rows) >= 2
           /\ rows[Len(rows)] = ToJson(cast.message)
           /\ rows[Len(rows) - 1].tag = "UserJoined"
           /\ rows[Len(rows) - 1].by \in Sessions

\* ------------------------------------------------------------------ C16
\* C16: while the store fails, a hydrate leaves the cache empty and the
\* set-name goes on to rename the session and broadcast its UserJoined; a
\* failed save changes neither the cache nor what was sent, ends the
\* handler and is not tried again.
C16_StoreFailureTolerated ==
    [][~storeUp =>
         /\ store' = store
         /\ \A s \in Sessions :
              /\ pc[s] = "su_load" /\ pc'[s] # "su_load" =>
                   /\ pc'[s] = "su_send"
                   /\ rooms'[roomOf[s]].history = << >>
                   /\ rooms'[roomOf[s]].clients = rooms[roomOf[s]].clients
              /\ pc[s] = "su_send" /\ rooms[roomOf[s]].history = << >>
                 /\ pc'[s] # "su_send" =>
                   /\ pc'[s] = "su_save"
                   /\ rooms'[roomOf[s]].clients[s] = arg[s]
                   /\ rooms'[roomOf[s]].history = <<UserJoined(arg[s], nextId, s)>>
                   /\ cast'.message = UserJoined(arg[s], nextId, s)
                   /\ \A t \in DOMAIN rooms[roomOf[s]].clients \ {s} :
                        /\ Len(sent'[t]) = Len(sent[t]) + 1
                        /\ sent'[t][Len(sent'[t])].ev = nextId
              /\ pc[s] \in SavePcs /\ pc'[s] # pc[s] =>
                   /\ rooms' = rooms
                   /\ sent' = sent
                   /\ cast' = cast
                   /\ pc'[s] \in {"reading", "done"}
                   /\ pend'[s] = NoMessage
                   /\ lock' = NoSession]_vars

\* The store fails, no handler is in progress, and the UserJoined of a
\* set-name whose hydrate failed is in the cache and was sent to another
\* session, while the store holds what it held at the start.
C16_Witness ==
    /\ ~storeUp
    /\ lock = NoSession
    /\ \A s \in Sessions : pend[s] = NoMessage
    /\ cast.message.type = "UserJoined"
    /\ cast.room \in DOMAIN rooms
    /\ rooms[cast.room].history = <<cast.message>>
    /\ \E t \in Sessions : CastCount(t, cast.message.id) = 1
    /\ Len(store["lobby"]) = MaxStored

\* ------------------------------------------------------------------ C17
\* C17: once a session (here one whose sink works, so that its UserJoined
\* was broadcast) has had a set-name handled, whatever the name, its
\* content and its history requests are answered with no rejection notice
\* and its disconnect goes on to broadcast a UserLeft.
C17_NamedAfterAnySetName ==
    [][\A s \in everNamed \ broken :
         /\ nframes' = nframes + 1 /\ cur'.s = s /\ cur'.class \in {"content", "history"} =>
              \A i \in (Len(sent[s]) + 1)..Len(sent'[s]) : sent'[s][i].via # "notice"
         /\ pc[s] = "cl_empty" /\ pc'[s] # "cl_empty" => pc'[s] = "cl_cast"]_vars

\* ------------------------------------------------------------------ C18
\* C18: a room (the first under its name or one created again) keeps an
\* empty cache until a set-name has hydrated it, the first set-name in it
\* reads the store, and when that set-name has broadcast its UserJoined
\* the cache is the hydrated store history followed by the UserJoined
\* (the first part is stated for the runs in which no sink fails).
C18_FreshHydrate ==
    /\ [](broken = {} =>
            \A r \in DOMAIN rooms : loads[r].hydrate = 0 => rooms[r].history = << >>)
    /\ [][\A s \in Sessions :
            /\ pc[s] = "reading" /\ pc'[s] \in {"su_load", "su_send"}
               /\ loads[roomOf[s]].hydrate = 0 =>
                   pc'[s] = "su_load"
            /\ pc[s] = "su_load" /\ pc'[s] = "su_send" =>
                   rooms'[roomOf[s]].history =
                       IF storeUp THEN RecentRows(roomOf[s]) ELSE << >>
            /\ pc[s] = "su_send" /\ pc'[s] = "su_save" =>
                   rooms'[roomOf[s]].history =
                       PushHistory(rooms[roomOf[s]].history, UserJoined(arg[s], nextId, s))]_vars

\* ------------------------------------------------------------------ C19
\* C19: the handling of a history request, refused or served, changes no
\* room (cache, names, client map), not the set of rooms and not the
\* store, and sends nothing to a session other than the requester.
C19_HistoryReadOnly ==
    [][\A s \in Sessions :
         \/ nframes' = nframes + 1 /\ cur'.s = s /\ cur'.class = "history"
         \/ pc[s] = "hi_load"
         => /\ rooms' = rooms
            /\ store' = store
            /\ cast' = cast
            /\ \A t \in Sessions \ {s} : sent'[t] = sent[t]]_vars

\* A history request was served with a replay of several events while
\* another session of the room has been sent nothing.
C19_Witness ==
    /\ replay.op = "history"
    /\ Len(replay.source) >= 2
    /\ pc[replay.to] = "reading"
    /\ \E i \in 1..Len(sent[replay.to]) : sent[replay.to][i].via = "full_history"
    /\ \E t \in Sessions \ {replay.to} :
         /\ roomOf[t] = roomOf[replay.to]
         /\ Joined(t)
         /\ sent[t] = << >>

\* ------------------------------------------------------------------ C20
\* C20: a set-name hydrates an empty cache with the store's recent
\* history, then sends the requester (whose sink works) the cache as it
\* stands before the UserJoined is pushed, each event once and oldest
\* first, and not the UserJoined; every other session is sent at most the
\* broadcast of the UserJoined and none of the replay.
C20_SetNameReplay ==
    [][\A s \in Sessions :
         /\ pc[s] = "su_load" /\ pc'[s] = "su_send" =>
              rooms'[roomOf[s]].history = IF storeUp THEN RecentRows(roomOf[s]) ELSE << >>
         /\ pc[s] = "su_send" /\ pc'[s] # "su_send" =>
              LET before == rooms[roomOf[s]].history IN
              /\ Chronological(before)
              /\ s \notin broken =>
                   /\ sent'[s] = sent[s] \o Rendered(before, "replay")
                   /\ pc'[s] = "su_save"
              /\ s \in broken => Len(sent'[s]) <= Len(sent[s]) + 1
              /\ \A i \in 1..Len(sent'[s]) : sent'[s][i].ev # nextId
              /\ \A t \in Sessions \ {s} :
                   \/ sent'[t] = sent[t]
                   \/ /\ Len(sent'[t]) = Len(sent[t]) + 1
                      /\ SubSeq(sent'[t], 1, Len(sent[t])) = sent[t]
                      /\ sent'[t][Len(sent'[t])].via = "cast"
                      /\ sent'[t][Len(sent'[t])].ev = nextId]_vars

\* A set-name replayed a cache of several events to the requester, and
\* another session of the room was sent the UserJoined and no replay.
C20_Witness ==
    /\ replay.op = "set_username"
    /\ ~replay.failed
    /\ Len(replay.source) >= 2
    /\ cast.message.type = "UserJoined"
    /\ cast.message.by = replay.to
    /\ CastCount(replay.to, cast.message.id) = 0
    /\ \E i \in 1..Len(sent[replay.to]) : sent[replay.to][i].via = "replay"
    /\ \E t \in Sessions \ {replay.to} :
         /\ CastCount(t, cast.message.id) = 1
         /\ \A i \in 1..Len(sent[t]) : sent[t][i].via # "replay"

\* ------------------------------------------------------------------ C21
\* The inbound frames that are neither text nor close.
NonText == {"Binary", "Ping", "Pong"}

\* The server with transports that stay open: receiver.next() yields text
\* frames and frames of NonText, never a close frame, an error or the end
\* of the stream.
NextOpen ==
    \E s \in Sessions :
        \/ \E r \in RoomChoice(s) : Connect(s, r)
        \/ JoinInsert(s)
        \/ \E t \in Frames : RecvDropped(s, t)
        \/ SinkBreak(s)
        \/ \E t \in Frames : SetUsernameBegin(s, t)
        \/ \E ok \in BOOLEAN : SetUsernameLoad(s, ok)
        \/ SetUsernameSend(s)
        \/ \E ok \in BOOLEAN : SetUsernameSave(s, ok)
        \/ \E t \in Frames : HistoryBegin(s, t)
        \/ \E ok \in BOOLEAN : HistoryLoad(s, ok)
        \/ \E t \in Frames : ChatBegin(s, t)
        \/ \E ok \in BOOLEAN : ChatSave(s, ok)
        \/ \E item \in NonText : CleanupRemove(s, item)
        \/ CleanupEmpty(s)
        \/ CleanupBroadcast(s)
        \/ \E ok \in BOOLEAN : CleanupSave(s, ok)

SpecOpen == Init /\ [][NextOpen]_vars

\* C21: while no transport closes or fails and no close frame arrives, a
\* session in its read loop stays in it and stays a client of its room,
\* whatever binary, ping or pong frames it receives.
C21_NonTextKeepsSession ==
    [][\A s \in Sessions :
         pc[s] = "reading" =>
             /\ pc'[s] \notin {"cl_empty", "cl_cast", "cl_save", "done"}
             /\ roomOf[s] \in DOMAIN rooms'
             /\ s \in DOMAIN rooms'[roomOf[s]].clients]_vars

\* ------------------------------------------------------------------ C22
\* C22: the UserLeft of a session is broadcast only to sessions that were
\* in the room when the session was removed from it, and is pushed only on
\* the cache of the Room the session was removed from: in another Room of
\* that name it can only come from a hydrate.
C22_LeftOnlyToThoseWhoStayed ==
    \A s \in Sessions :
        /\ \A t \in Sessions : LeftSends(t, s) # {} => t \in leftAt[s].members
        /\ \A r \in DOMAIN rooms :
             rooms[r].inst # leftAt[s].inst /\ loads[r].hydrate = 0 =>
                 LeftIn(rooms[r].history, s) = {}

====
